---- MODULE Spec2Model ----
(***************************************************************************)
(* Model of the decode path of pkg/marshaling (unmarshal.go): UnmarshalMap,*)
(* BytesToType and UnmarshalByteMap.                                       *)
(*                                                                         *)
(* A Go value is the record [t, isnil, d, sub]: t names its type, isnil    *)
(* says whether a nillable value is nil, d holds its bytes (an integer's   *)
(* bytes most significant first, a string's or a []byte's content) and sub *)
(* its parts (a struct's fields in declaration order, a pointer's pointee).*)
(* A call ends "ok" (nil error), "err" (non-nil error) or "panic" (a       *)
(* run-time panic of the Go runtime or of package reflect).                *)
(***************************************************************************)
EXTENDS Integers, Sequences, FiniteSets, TLC

VARIABLES
    pc,        \* "ready": inputs chosen, call not made; "done": call returned
    op,        \* the function called
    wordSize,  \* bytes of the build's int / uint / uintptr (4 or 8)
    b,         \* BytesToType: the byte slice
    typ,       \* BytesToType: the reflect.Type asked for
    m,         \* UnmarshalMap: map[string]interface{}
    bm,        \* UnmarshalByteMap: map[string][]byte
    v,         \* UnmarshalMap / UnmarshalByteMap: the target argument
    ord,       \* the order in which range visited the map's keys
    dec,       \* what the external decoder (json, proto, msgpack, gob) did
    cust,      \* what the target's own UnmarshalMap / UnmarshalByteMap did
    ret,       \* what the call returned: [st, val, err]
    out        \* the target structure after the call

vars == <<pc, op, wordSize, b, typ, m, bm, v, ord, dec, cust, ret, out>>

-----------------------------------------------------------------------------
(* Bounds of the checked inputs. *)

MaxPayload == 2
MaxKeys == 2
MaxPtrLayers == 2

-----------------------------------------------------------------------------
(* Constants of the package (declared beside the encode path). *)

DefaultVersion == 1
ZeroEncoding == 0
BigEndianEncoding == 1
LittleEndianEncoding == 2
JSONEncoding == 3
ProtoEncoding == 4
MsgPackEncoding == 5
GobEncoding == 6
Separator == "."

-----------------------------------------------------------------------------
(* Go values and types. *)

Mk(t, isnil, d, sub) == [t |-> t, isnil |-> isnil, d |-> d, sub |-> sub]

\* The nil interface{}: no value.
NilIface == Mk("nil", TRUE, <<>>, <<>>)

\* reflect.Type.Kind() of the types the inputs use.
Kind(t) ==
    CASE t = "uint8" -> "Uint8"
      [] t = "uint16" -> "Uint16"
      [] t = "uint" -> "Uint"
      [] t = "int" -> "Int"
      [] t = "string" -> "String"
      [] t \in {"bytes", "strings"} -> "Slice"
      [] t \in {"ptrUint8", "ptrUint", "ptrInner"} -> "Ptr"
      [] t \in {"Inner", "T"} -> "Struct"
      [] t = "map" -> "Map"
      [] t = "chan" -> "Chan"
      [] t = "func" -> "Func"
      [] t = "iface" -> "Interface"
      [] OTHER -> "Invalid"

\* reflect.Type.Elem() of a pointer or slice type.
Elem(t) ==
    CASE t = "ptrUint8" -> "uint8"
      [] t = "ptrUint" -> "uint"
      [] t = "ptrInner" -> "Inner"
      [] t = "bytes" -> "uint8"
      [] t = "strings" -> "string"
      [] OTHER -> "nil"

\* The fields of the struct types:
\*   type Inner struct { B uint8; C uint8 }
\*   type T struct { N uint8; L []byte; P *Inner; A Inner }
Fields(t) ==
    CASE t = "Inner" -> << [name |-> <<"B">>, typ |-> "uint8"],
                           [name |-> <<"C">>, typ |-> "uint8"] >>
      [] t = "T" -> << [name |-> <<"N">>, typ |-> "uint8"],
                       [name |-> <<"L">>, typ |-> "bytes"],
                       [name |-> <<"P">>, typ |-> "ptrInner"],
                       [name |-> <<"A">>, typ |-> "Inner"] >>
      [] OTHER -> <<>>

\* IsNillableKind with the slice kind forgotten.
IsNillableKindNoSlice(k) ==
    \/ k = "Ptr"
    \/ k = "Map"
    \/ k = "Interface"
    \/ k = "Chan"
    \/ k = "Func"

\* IsNillableKind reports whether k represents a nillable reflect.Kind.
IsNillableKind(k) ==
    \/ k = "Ptr"
    \/ k = "Map"
    \/ k = "Interface"
    \/ k = "Chan"
    \/ k = "Func"
    \/ k = "Slice"

\* IsNillableType reports whether t represents a nillable reflect.Type.
IsNillableType(t) == IsNillableKind(Kind(t))

Zeros(n) == [i \in 1..n |-> 0]

\* Bytes an integer type occupies.
IntBytes(t) ==
    CASE Kind(t) = "Uint8" -> 1
      [] Kind(t) = "Uint16" -> 2
      [] Kind(t) \in {"Uint", "Int"} -> wordSize
      [] OTHER -> 0

\* The zero value of a type: what reflect.New(t).Elem() holds.
RECURSIVE Zero(_)
Zero(t) ==
    CASE Kind(t) \in {"Uint8", "Uint16", "Uint", "Int"} ->
            Mk(t, FALSE, Zeros(IntBytes(t)), <<>>)
      [] Kind(t) = "String" -> Mk(t, FALSE, <<>>, <<>>)
      [] Kind(t) = "Struct" ->
            Mk(t, FALSE, <<>>, [i \in 1..Len(Fields(t)) |-> Zero(Fields(t)[i].typ)])
      [] OTHER -> Mk(t, TRUE, <<>>, <<>>)

\* reflect.Value.Interface(): the value as an interface{}; a nil value of
\* interface kind is the nil interface.
Interface(val) ==
    IF Kind(val.t) = "Interface" /\ val.isnil THEN NilIface ELSE val

-----------------------------------------------------------------------------
(* Results of a call. *)

Ok(val) == [st |-> "ok", val |-> val, err |-> "nil"]
Err(e) == [st |-> "err", val |-> NilIface, err |-> e]
ValErr(val, e) == [st |-> "err", val |-> val, err |-> e]
Panic(e) == [st |-> "panic", val |-> NilIface, err |-> e]

-----------------------------------------------------------------------------
(* BytesToType. *)

RECURSIVE Reverse(_)
Reverse(s) == IF s = <<>> THEN <<>> ELSE Reverse(Tail(s)) \o <<Head(s)>>

\* The version check with only older versions refused.
VersionSupportedAtLeast(ver) == ver >= DefaultVersion

\* ver != DefaultVersion is refused.
VersionSupported(ver) == ver = DefaultVersion

\* The type iv has once the loop over pointer kinds ends.
RECURSIVE InnerType(_)
InnerType(t) == IF Kind(t) = "Ptr" THEN InnerType(Elem(t)) ELSE t

\* pv.Elem() once every pointer layer is allocated and a slice, map, chan or
\* func at the bottom is made.
RECURSIVE Fresh(_)
Fresh(t) ==
    CASE Kind(t) = "Ptr" -> Mk(t, FALSE, <<>>, <<Fresh(Elem(t))>>)
      [] Kind(t) \in {"Slice", "Map", "Chan", "Func"} -> Mk(t, FALSE, <<>>, <<>>)
      [] OTHER -> Zero(t)

\* pv.Elem() with iv set to x.
RECURSIVE WithInner(_, _)
WithInner(val, x) ==
    IF Kind(val.t) = "Ptr"
    THEN Mk(val.t, FALSE, <<>>, <<WithInner(val.sub[1], x)>>)
    ELSE x

\* encoding/binary's sizeof: the bytes of a fixed-size type, -1 for any other
\* (int, uint, string, pointer, slice, map, ...).
RECURSIVE SizeOf(_)
RECURSIVE SumSizes(_, _)
SumSizes(fs, i) ==
    IF i > Len(fs) THEN 0
    ELSE LET s == SizeOf(fs[i].typ)
             r == SumSizes(fs, i + 1)
         IN  IF s < 0 \/ r < 0 THEN -1 ELSE s + r
SizeOf(t) ==
    CASE Kind(t) = "Uint8" -> 1
      [] Kind(t) = "Uint16" -> 2
      [] Kind(t) = "Struct" -> SumSizes(Fields(t), 1)
      [] OTHER -> -1

\* The bytes binary.Read wants for pv.Interface() when the buffer holds n:
\* -1 when it refuses the type. A slice was made n / elemsize long before.
DataSize(t, n) ==
    IF Kind(t) = "Slice"
    THEN IF SizeOf(Elem(t)) > 0
         THEN SizeOf(Elem(t)) * (n \div SizeOf(Elem(t)))
         ELSE -1
    ELSE SizeOf(t)

\* binary.Read's decoding of exactly SizeOf bytes into a value of type t.
RECURSIVE DecodeFixed(_, _, _)
RECURSIVE DecodeFields(_, _, _, _)
DecodeFields(fs, i, bs, enc) ==
    IF i > Len(fs) THEN <<>>
    ELSE LET s == SizeOf(fs[i].typ)
         IN  <<DecodeFixed(fs[i].typ, SubSeq(bs, 1, s), enc)>>
                 \o DecodeFields(fs, i + 1, SubSeq(bs, s + 1, Len(bs)), enc)
DecodeFixed(t, bs, enc) ==
    CASE Kind(t) = "Uint16" ->
            Mk(t, FALSE, IF enc = LittleEndianEncoding THEN Reverse(bs) ELSE bs, <<>>)
      [] Kind(t) = "Struct" -> Mk(t, FALSE, <<>>, DecodeFields(Fields(t), 1, bs, enc))
      [] OTHER -> Mk(t, FALSE, bs, <<>>)

\* x << k bytes, x >> k bytes (logical) and x >> k bytes (arithmetic) on 64 bits.
Shl(x, k) == SubSeq(x, k + 1, 8) \o Zeros(k)
ShrLogical(x, k) == Zeros(k) \o SubSeq(x, 1, 8 - k)
ShrArith(x, k) == [i \in 1..k |-> IF x[1] >= 128 THEN 255 ELSE 0] \o SubSeq(x, 1, 8 - k)

\* OverflowUint with the width of the type taken to be 64 bits.
OverflowUintAs64(x) == x # ShrLogical(Shl(x, 0), 0)

\* reflect.Value.OverflowUint: x != (x << (64 - bitSize)) >> (64 - bitSize).
OverflowUint(x) == x # ShrLogical(Shl(x, 8 - wordSize), 8 - wordSize)

\* reflect.Value.OverflowInt: the same with an arithmetic shift.
OverflowInt(x) == x # ShrArith(Shl(x, 8 - wordSize), 8 - wordSize)

\* The return after the fixed-width read: the value, with an error when bytes
\* are left in the buffer.
AfterRead(val, left) ==
    IF left > 0 THEN ValErr(val, "unread data left in buffer") ELSE Ok(val)

\* case BigEndianEncoding, LittleEndianEncoding.
FixedWidth(enc, p, t) ==
    LET it == InnerType(t)
        k == Kind(it)
        n == Len(p)
        fresh == Fresh(t)
    IN  CASE k = "String" ->
                Ok(Interface(WithInner(fresh, Mk(it, FALSE, p, <<>>))))
          [] k \in {"Int", "Uint"} ->
                IF n = 0 THEN Ok(Interface(fresh))
                ELSE IF n < 8 THEN Err("unexpected EOF")
                ELSE LET raw == SubSeq(p, 1, 8)
                         x == IF enc = LittleEndianEncoding THEN Reverse(raw) ELSE raw
                         narrowed == Mk(it, FALSE, SubSeq(x, 8 - wordSize + 1, 8), <<>>)
                     IN  IF (IF k = "Int" THEN OverflowInt(x) ELSE OverflowUint(x))
                         THEN Err("overflow")
                         ELSE AfterRead(Interface(WithInner(fresh, narrowed)), n - 8)
          [] OTHER ->
                LET size == DataSize(t, n)
                IN  IF size < 0 THEN Err("binary.Read: invalid type")
                    ELSE IF size > 0 /\ n = 0 THEN Ok(Interface(fresh))
                    ELSE IF n < size THEN Err("unexpected EOF")
                    ELSE AfterRead(Interface(DecodeFixed(t, SubSeq(p, 1, size), enc)),
                                   n - size)

\* A value an external decoder fills in: every integer 9, every string and
\* byte slice "\t".
RECURSIVE Sample(_)
Sample(t) ==
    CASE Kind(t) \in {"Uint8", "Uint16", "Uint", "Int"} ->
            Mk(t, FALSE, [i \in 1..IntBytes(t) |-> IF i = IntBytes(t) THEN 9 ELSE 0], <<>>)
      [] Kind(t) = "String" -> Mk(t, FALSE, <<9>>, <<>>)
      [] t = "bytes" -> Mk(t, FALSE, <<9>>, <<>>)
      [] Kind(t) = "Struct" ->
            Mk(t, FALSE, <<>>, [i \in 1..Len(Fields(t)) |-> Sample(Fields(t)[i].typ)])
      [] Kind(t) = "Ptr" -> Mk(t, FALSE, <<>>, <<Sample(Elem(t))>>)
      [] OTHER -> Fresh(t)

\* What the external decoders can do with a payload: decode it or fail, and
\* (msgp.Unmarshaler) hand back unread bytes.
DecOutcomes == [fail : BOOLEAN, left : BOOLEAN]

\* return pv.Elem().Interface(), err after an external decoder ran.
Decoded(t, d) ==
    IF d.fail THEN ValErr(Interface(Fresh(t)), "decoder error")
    ELSE Ok(Interface(Sample(t)))

\* The types that implement proto.Message and msgp.Unmarshaler: *Inner does,
\* with pointer receivers.
Implements(t) == t = "ptrInner"
PtrTo(t) ==
    CASE t = "Inner" -> "ptrInner"
      [] t = "uint8" -> "ptrUint8"
      [] t = "uint" -> "ptrUint"
      [] OTHER -> "ptrOther"

BytesToType(bb, t, d) ==
    IF Len(bb) = 0 THEN Err("InvalidData: empty byte slice specified")
    ELSE IF ~VersionSupported(bb[1]) THEN Err("unsupported version")
    ELSE LET b1 == Tail(bb)
             enc == IF Len(b1) > 0 THEN b1[1] ELSE 0
         IN  IF Len(b1) < 1 THEN Panic("slice bounds out of range")
             ELSE LET p == Tail(b1)
                  IN  IF enc = ZeroEncoding /\ IsNillableType(t) THEN Ok(NilIface)
                      ELSE CASE enc = ZeroEncoding -> Ok(Interface(Fresh(t)))
                             [] enc \in {BigEndianEncoding, LittleEndianEncoding} ->
                                    FixedWidth(enc, p, t)
                             [] enc = JSONEncoding -> Decoded(t, d)
                             [] enc = ProtoEncoding ->
                                    IF ~Implements(t) /\ ~Implements(PtrTo(t))
                                    THEN Err("expected to implement proto.Message")
                                    ELSE Decoded(t, d)
                             [] enc = MsgPackEncoding ->
                                    IF ~Implements(t) /\ ~Implements(PtrTo(t))
                                    THEN Decoded(t, d)
                                    ELSE IF d.left
                                         THEN Err("InvalidData: Unmarshaled data left in buffer")
                                         ELSE Decoded(t, d)
                             [] enc = GobEncoding -> Decoded(t, d)
                             [] OTHER -> Err("InvalidData: unmatched encoding")

-----------------------------------------------------------------------------
(* UnmarshalMap. *)

Res(st, err, root) == [st |-> st, err |-> err, root |-> root]

\* strings.Split(k, Separator) on a key held as a sequence of characters.
RECURSIVE SplitFrom(_, _)
SplitFrom(s, cur) ==
    IF s = <<>> THEN <<cur>>
    ELSE IF Head(s) = Separator THEN <<cur>> \o SplitFrom(Tail(s), <<>>)
    ELSE SplitFrom(Tail(s), Append(cur, Head(s)))
Split(s) == SplitFrom(s, <<>>)

\* The place of the field FieldByName finds, 0 when the struct has none.
FieldIndex(t, name) ==
    IF \E i \in 1..Len(Fields(t)) : Fields(t)[i].name = name
    THEN CHOOSE i \in 1..Len(Fields(t)) : Fields(t)[i].name = name
    ELSE 0

\* The kinds of map value that are assigned as they are.
ScalarKinds == {"Int", "Int8", "Int16", "Int32", "Int64",
                "Uint", "Uint8", "Uint16", "Uint32", "Uint64",
                "Float32", "Float64", "Bool", "String"}

\* reflect.ValueOf(mv).Kind(): Invalid for the nil interface.
ValueKind(mv) == IF mv = NilIface THEN "Invalid" ELSE Kind(mv.t)

\* The switch on the map value's kind, at the field fv the key resolved to;
\* addr says whether fv can be set.
Assign(fv, addr, mk, mv, d) ==
    LET vk == ValueKind(mv)
    IN  CASE vk \in ScalarKinds ->
                IF vk # Kind(fv.t) THEN Res("err", "InvalidData: field value has kind", fv)
                ELSE IF ~addr \/ mv.t # fv.t THEN Res("panic", "reflect.Value.Set", fv)
                ELSE Res("ok", "nil", mv)
          [] vk = "Invalid" -> Res("ok", "nil", fv)
          [] vk = "Slice" /\ Kind(Elem(mv.t)) = "Uint8" ->
                LET r == BytesToType(mv.d, fv.t, d)
                IN  IF r.st # "ok" THEN Res(r.st, r.err, fv)
                    ELSE IF r.val = NilIface THEN Res("ok", "nil", fv)
                    ELSE IF ~addr THEN Res("panic", "reflect.Value.Set", fv)
                    ELSE Res("ok", "nil", r.val)
          [] OTHER -> Res("err", "InvalidData: unmatched map value kind", fv)

\* The walk along the key's segments from fv = cur, then the assignment.
\* Returns cur as the walk and the assignment leave it.
RECURSIVE Walk(_, _, _, _, _, _)
Walk(cur, addr, segs, mk, mv, d) ==
    IF segs = <<>> THEN Assign(cur, addr, mk, mv, d)
    ELSE IF Kind(cur.t) = "Ptr"
    THEN IF cur.isnil /\ ~addr THEN Res("panic", "reflect.Value.Set", cur)
         ELSE LET pointee == IF cur.isnil THEN Zero(Elem(cur.t)) ELSE cur.sub[1]
                  r == Walk(pointee, TRUE, segs, mk, mv, d)
              IN  Res(r.st, r.err, Mk(cur.t, FALSE, <<>>, <<r.root>>))
    ELSE IF Kind(cur.t) # "Struct"
    THEN Res("panic", "reflect: call of reflect.Value.FieldByName on non-struct Value", cur)
    ELSE LET i == FieldIndex(cur.t, Head(segs))
         IN  IF i = 0
             THEN Res("panic", "reflect: call of reflect.Value.Type on zero Value", cur)
             ELSE LET r == Walk(cur.sub[i], addr, Tail(segs), mk, mv, d)
                  IN  Res(r.st, r.err, [cur EXCEPT !.sub[i] = r.root])

\* for mk, mv := range m, in the order range visits the keys.
RECURSIVE Entries(_, _, _, _, _)
Entries(mm, order, root, addr, d) ==
    IF order = <<>> THEN Res("ok", "nil", root)
    ELSE LET mk == Head(order)
             r == Walk(root, addr, Split(mk), mk, mm[mk], d)
         IN  IF r.st = "ok" THEN Entries(mm, Tail(order), r.root, addr, d)
             ELSE r

\* rv after `for rv.Kind() == reflect.Ptr && rv.IsValid() { rv = rv.Elem() }`,
\* i layers in: "invalid" (a nil layer, or a nil interface), "value" (the
\* structure was passed by value) or "addr" (reached through a pointer).
RECURSIVE Indirect(_, _)
Indirect(vv, i) ==
    IF ~vv.iface THEN "invalid"
    ELSE IF i < vv.layers
    THEN IF vv.nilLayer = i + 1 THEN "invalid" ELSE Indirect(vv, i + 1)
    ELSE IF i = 0 THEN "value" ELSE "addr"

\* What a target's own UnmarshalMap or UnmarshalByteMap can do.
CustOutcomes == [fail : BOOLEAN, touch : BOOLEAN]

\* return mu.UnmarshalMap(m): the target's own method decides.
Delegated(vv, c) ==
    Res(IF c.fail THEN "err" ELSE "ok",
        IF c.fail THEN "error of the target's own method" ELSE "nil",
        IF c.touch THEN Sample("T") ELSE vv.val)

\* len(m) == 0
IsEmptyMap(mm) == Cardinality(DOMAIN mm) = 0

\* UnmarshalMap with the test for the empty map made after the target is
\* resolved.
UnmarshalMapLateEmptyTest(mm, vv, order, d, c) ==
    IF vv.impl THEN Delegated(vv, c)
    ELSE LET rv == Indirect(vv, 0)
         IN  IF rv = "invalid"
             THEN Res("err", "InvalidData: indirected value is nil", vv.val)
             ELSE IF IsEmptyMap(mm) THEN Res("ok", "nil", vv.val)
             ELSE Entries(mm, order, vv.val, rv = "addr", d)

UnmarshalMap(mm, vv, order, d, c) ==
    IF vv.impl THEN Delegated(vv, c)
    ELSE IF IsEmptyMap(mm) THEN Res("ok", "nil", vv.val)
    ELSE LET rv == Indirect(vv, 0)
         IN  IF rv = "invalid"
             THEN Res("err", "InvalidData: indirected value is nil", vv.val)
             ELSE Entries(mm, order, vv.val, rv = "addr", d)

-----------------------------------------------------------------------------
(* UnmarshalByteMap. *)

\* im[k] = v: each byte slice as an interface{}.
WrapBytes(bmap) == [k \in DOMAIN bmap |-> Mk("bytes", FALSE, bmap[k], <<>>)]

UnmarshalByteMap(bmap, vv, order, d, c) ==
    IF vv.implBM THEN Delegated(vv, c)
    ELSE IF IsEmptyMap(bmap) THEN Res("ok", "nil", vv.val)
    ELSE UnmarshalMap(WrapBytes(bmap), vv, order, d, c)

-----------------------------------------------------------------------------
(* The inputs the calls are checked on. *)

ByteVals == {0, 44, 255}

\* Payloads of up to MaxPayload bytes, 64-bit payloads around the 32-bit
\* limits (300 is <<0, 0, 0, 0, 0, 0, 1, 44>>), and 64-bit payloads followed
\* by one more byte.
ShortPayloads == UNION {[1..n -> ByteVals] : n \in 0..MaxPayload}
WidePayloads ==
    {<<x, x, x, y, z, 0, a, c>> :
        x \in {0, 255}, y \in {0, 255}, z \in {0, 128}, a \in {0, 1}, c \in {44, 255}}
LongPayloads == {<<0, 0, 0, 0, 0, 0, 1, c, 7>> : c \in {44, 255}}
Payloads == ShortPayloads \cup WidePayloads \cup LongPayloads

Versions == {DefaultVersion - 1, DefaultVersion, DefaultVersion + 1}
Tags == ZeroEncoding..(GobEncoding + 1)

Envelopes ==
    {<<>>} \cup {<<ver>> : ver \in Versions}
           \cup {<<ver, tag>> \o p : ver \in Versions, tag \in Tags, p \in Payloads}

Types == {"uint8", "uint16", "uint", "int", "string", "bytes", "strings",
          "ptrUint8", "ptrUint", "ptrInner", "Inner", "map", "chan", "func", "iface"}

\* Keys of the map: paths into T, some of which name no field.
Keys == { <<"L">>, <<"P", ".", "B">>, <<"A">>, <<"A", ".", "B">>,
          <<"A", ".", "X">>, <<"N", ".", "B">> }

EmptyEnvelope == <<DefaultVersion, ZeroEncoding>>

\* Values of the map: a uint8, a string, nil, a map, and byte slices.
MapValues ==
    { Mk("uint8", FALSE, <<1>>, <<>>),
      Mk("string", FALSE, <<104>>, <<>>),
      NilIface,
      Mk("map", FALSE, <<>>, <<>>),
      Mk("bytes", FALSE, EmptyEnvelope, <<>>),
      Mk("bytes", FALSE, <<DefaultVersion, BigEndianEncoding, 5, 6>>, <<>>) }

ByteMapValues ==
    { EmptyEnvelope, <<DefaultVersion, BigEndianEncoding, 5>>,
      <<DefaultVersion, JSONEncoding, 0>> }

KeySets == {ks \in SUBSET Keys : Cardinality(ks) <= MaxKeys}
Maps(vals) == UNION {[ks -> vals] : ks \in KeySets}

\* A T whose fields are all set, P pointing to an Inner.
FullT ==
    Mk("T", FALSE, <<>>,
       << Mk("uint8", FALSE, <<3>>, <<>>),
          Mk("bytes", FALSE, <<8>>, <<>>),
          Mk("ptrInner", FALSE, <<>>,
             << Mk("Inner", FALSE, <<>>, << Mk("uint8", FALSE, <<4>>, <<>>),
                                            Mk("uint8", FALSE, <<4>>, <<>>) >>) >>),
          Mk("Inner", FALSE, <<>>, << Mk("uint8", FALSE, <<2>>, <<>>),
                                      Mk("uint8", FALSE, <<2>>, <<>>) >>) >>)

Target(iface, layers, nilLayer, impl, implBM, val) ==
    [iface |-> iface, layers |-> layers, nilLayer |-> nilLayer,
     impl |-> impl, implBM |-> implBM, val |-> val]

\* The target argument: the nil interface; a T (zero, or full) passed by value
\* or by pointer; a zero T behind 2..MaxPtrLayers pointers; a pointer chain
\* whose n-th layer is nil; a *T whose type has its own UnmarshalMap or
\* UnmarshalByteMap.
Targets ==
    {Target(FALSE, 0, 0, FALSE, FALSE, Zero("T"))}
  \cup {Target(TRUE, l, 0, FALSE, FALSE, t) : l \in 0..1, t \in {Zero("T"), FullT}}
  \cup {Target(TRUE, l, 0, FALSE, FALSE, Zero("T")) : l \in 2..MaxPtrLayers}
  \cup UNION {{Target(TRUE, l, n, FALSE, FALSE, Zero("T")) : n \in {1, l}} :
                  l \in 1..MaxPtrLayers}
  \cup {Target(TRUE, 1, 0, i, ~i, FullT) : i \in BOOLEAN}

NoDec == [fail |-> FALSE, left |-> FALSE]
NoCust == [fail |-> FALSE, touch |-> FALSE]
NoTarget == Target(FALSE, 0, 0, FALSE, FALSE, NilIface)
NoRet == [st |-> "none", val |-> NilIface, err |-> "nil"]

\* Whether BytesToType hands the payload of bb to an external decoder.
UsesDecoder(bb) ==
    /\ Len(bb) >= 2
    /\ bb[2] \in {JSONEncoding, ProtoEncoding, MsgPackEncoding, GobEncoding}

\* The outcomes of the external decoders that a call on the byte slices bs can
\* meet, and those of the target's own method.
DecChoices(bs) ==
    IF \E bb \in bs : UsesDecoder(bb) /\ bb[2] = MsgPackEncoding THEN DecOutcomes
    ELSE IF \E bb \in bs : UsesDecoder(bb) THEN {d \in DecOutcomes : ~d.left}
    ELSE {NoDec}
CustChoices(vv) == IF vv.impl \/ vv.implBM THEN CustOutcomes ELSE {NoCust}
ByteValues(mm) == {mm[k].d : k \in {x \in DOMAIN mm : mm[x].t = "bytes"}}

\* The orders range can visit the keys of a map in: all of them.
Orders(ks) ==
    {o \in [1..Cardinality(ks) -> ks] : \A k \in ks : \E i \in DOMAIN o : o[i] = k}

-----------------------------------------------------------------------------
(* The state machine: a call's inputs are chosen, then the call is made. *)

Init ==
    /\ pc = "ready"
    /\ op \in {"BytesToType", "UnmarshalMap", "UnmarshalByteMap"}
    /\ typ \in IF op = "BytesToType" THEN Types ELSE {"nil"}
    /\ wordSize \in IF InnerType(typ) \in {"uint", "int"} THEN {4, 8} ELSE {8}
    /\ b \in IF op = "BytesToType" THEN Envelopes ELSE {<<>>}
    /\ m \in IF op = "UnmarshalMap" THEN Maps(MapValues) ELSE {<<>>}
    /\ bm \in IF op = "UnmarshalByteMap" THEN Maps(ByteMapValues) ELSE {<<>>}
    /\ v \in IF op = "BytesToType" THEN {NoTarget}
             ELSE Targets
    /\ ord = <<>>
    /\ dec = NoDec
    /\ cust = NoCust
    /\ ret = NoRet
    /\ out = v.val

CallBytesToType ==
    /\ pc = "ready"
    /\ op = "BytesToType"
    /\ \E d \in DecChoices({b}) :
          /\ dec' = d
          /\ ret' = BytesToType(b, typ, d)
    /\ pc' = "done"
    /\ UNCHANGED <<op, wordSize, b, typ, m, bm, v, ord, cust, out>>

CallUnmarshalMap ==
    /\ pc = "ready"
    /\ op = "UnmarshalMap"
    /\ \E o \in Orders(DOMAIN m), d \in DecChoices(ByteValues(m)), c \in CustChoices(v) :
          /\ ord' = o
          /\ dec' = d
          /\ cust' = c
          /\ LET r == UnmarshalMap(m, v, o, d, c)
             IN  /\ ret' = [st |-> r.st, val |-> NilIface, err |-> r.err]
                 /\ out' = r.root
    /\ pc' = "done"
    /\ UNCHANGED <<op, wordSize, b, typ, m, bm, v>>

CallUnmarshalByteMap ==
    /\ pc = "ready"
    /\ op = "UnmarshalByteMap"
    /\ \E o \in Orders(DOMAIN bm), d \in DecChoices({bm[k] : k \in DOMAIN bm}),
          c \in CustChoices(v) :
          /\ ord' = o
          /\ dec' = d
          /\ cust' = c
          /\ LET r == UnmarshalByteMap(bm, v, o, d, c)
             IN  /\ ret' = [st |-> r.st, val |-> NilIface, err |-> r.err]
                 /\ out' = r.root
    /\ pc' = "done"
    /\ UNCHANGED <<op, wordSize, b, typ, m, bm, v>>

Next == CallBytesToType \/ CallUnmarshalMap \/ CallUnmarshalByteMap

Spec == Init /\ [][Next]_vars

-----------------------------------------------------------------------------
(* What the claims speak of. *)

Done(o) == pc = "done" /\ op = o

\* The map a call was given, as UnmarshalMap sees it, and whether the target
\* has the capability the called function asks for first.
GivenMap == IF op = "UnmarshalByteMap" THEN WrapBytes(bm) ELSE m
SelfDecoding == IF op = "UnmarshalByteMap" THEN v.implBM ELSE v.impl
MapCallDone == pc = "done" /\ op \in {"UnmarshalMap", "UnmarshalByteMap"}

\* The type of the field a path of T leads to, "none" when a segment names no
\* field or is applied to a value that is no structure.
RECURSIVE PathType(_, _)
PathType(t, segs) ==
    IF segs = <<>> THEN t
    ELSE IF Kind(t) = "Ptr" THEN PathType(Elem(t), segs)
    ELSE IF Kind(t) # "Struct" \/ FieldIndex(t, Head(segs)) = 0 THEN "none"
    ELSE PathType(Fields(t)[FieldIndex(t, Head(segs))].typ, Tail(segs))

\* The field of root a path leads to; the nil interface behind a nil pointer.
RECURSIVE FieldAt(_, _)
FieldAt(cur, segs) ==
    IF segs = <<>> THEN cur
    ELSE IF Kind(cur.t) = "Ptr"
    THEN IF cur.isnil THEN NilIface ELSE FieldAt(cur.sub[1], segs)
    ELSE FieldAt(cur.sub[FieldIndex(cur.t, Head(segs))], Tail(segs))

IsPrefix(s, t) == Len(s) <= Len(t) /\ SubSeq(t, 1, Len(s)) = s

\* No other key of the map lies on the path of key k, or beyond it.
Alone(mm, k) ==
    \A k2 \in DOMAIN mm \ {k} :
        ~IsPrefix(Split(k), Split(k2)) /\ ~IsPrefix(Split(k2), Split(k))

\* The target is a structure reached through pointers, none of them nil.
Addressable(vv) == vv.iface /\ vv.layers >= 1 /\ vv.nilLayer = 0

EmptyEnvelopeValue == Mk("bytes", FALSE, EmptyEnvelope, <<>>)

-----------------------------------------------------------------------------
(* C8 *)

\* C8: BytesToType on a non-empty input whose first byte is not the supported
\* version returns an unsupported-version error and no value, whatever the
\* tag, the payload (also none: a single byte), the target type and what an
\* external decoder would have done with the payload.
C8_UnsupportedVersion ==
    (Done("BytesToType") /\ Len(b) > 0 /\ b[1] # DefaultVersion)
        => ret = [st |-> "err", val |-> NilIface, err |-> "unsupported version"]

\* A JSON envelope of another version, whose payload the decoder would refuse,
\* was turned down for its version.
C8_Witness ==
    /\ Done("BytesToType")
    /\ Len(b) > 2
    /\ b[1] = DefaultVersion + 1
    /\ b[2] = JSONEncoding
    /\ dec.fail
    /\ ret.err = "unsupported version"

-----------------------------------------------------------------------------
(* C3 *)

\* C3: BytesToType on the one-byte envelope <<version>> behaves as on
\* <<version, Empty>>: no value and no error for a nillable type, the zero
\* value and no error for any other type; it does not panic.
C3_OneByteEnvelope ==
    (Done("BytesToType") /\ b = <<DefaultVersion>>)
        => /\ ret.st = "ok"
           /\ ret = BytesToType(EmptyEnvelope, typ, dec)

-----------------------------------------------------------------------------
(* C5 *)

\* C5: BytesToType never returns a value together with an error: a non-nil
\* error comes with the nil value, a value comes with the nil error.
C5_NoValueWithError ==
    Done("BytesToType") => (ret.st = "err" => ret.val = NilIface)

-----------------------------------------------------------------------------
(* C4 *)

\* The payload of a fixed-width envelope of the supported version.
FixedEnvelope == Len(b) >= 2 /\ b[1] = DefaultVersion
                    /\ b[2] \in {BigEndianEncoding, LittleEndianEncoding}
Payload == SubSeq(b, 3, Len(b))
Payload64 == IF b[2] = LittleEndianEncoding THEN Reverse(Payload) ELSE Payload

\* Whether the 64-bit value x is the zero extension (unsigned) or the sign
\* extension (signed) of its low w bytes.
Fits(x, w, signed) ==
    LET top == IF signed /\ x[8 - w + 1] >= 128 THEN 255 ELSE 0
    IN  \A i \in 1..(8 - w) : x[i] = top

U64of300 == <<0, 0, 0, 0, 0, 0, 1, 44>>
U64of255 == <<0, 0, 0, 0, 0, 0, 0, 255>>

\* C4 as stated: the Fixed Big-Endian 64-bit encoding of 300 decoded into a
\* uint8 fails with an overflow error, and that of 255 decodes to 255.
C4_Uint8Overflow ==
    (Done("BytesToType") /\ FixedEnvelope /\ b[2] = BigEndianEncoding /\ typ = "uint8")
        => /\ Payload = U64of300 => (ret.st = "err" /\ ret.err = "overflow")
           /\ Payload = U64of255 =>
                 ret = Ok(Mk("uint8", FALSE, <<255>>, <<>>))

\* C4 as amended: only a target of kind int or uint (also behind a pointer) is
\* read into a 64-bit intermediate, and its narrowing fails with an overflow
\* error and no value exactly when the 64-bit value does not fit the width the
\* build gives the type; a uint8 target is read at its own width, so that the
\* 64-bit encodings of 300 and of 255 both fail with "unread data left in
\* buffer" beside the first byte, and 255 decodes to 255 from one byte.
C4_Amended ==
    (Done("BytesToType") /\ FixedEnvelope)
        => /\ (InnerType(typ) \in {"uint", "int"} /\ Len(Payload) = 8) =>
                 IF Fits(Payload64, wordSize, InnerType(typ) = "int")
                 THEN /\ ret.st = "ok"
                      /\ ret.val.t = typ
                      /\ (IF Kind(typ) = "Ptr" THEN ret.val.sub[1] ELSE ret.val).d
                            = SubSeq(Payload64, 8 - wordSize + 1, 8)
                 ELSE ret = Err("overflow")
           /\ (typ = "uint8" /\ Len(Payload) = 8) =>
                 ret = ValErr(Mk("uint8", FALSE, <<Payload[1]>>, <<>>),
                              "unread data left in buffer")
           /\ (typ = "uint8" /\ Len(Payload) = 1) =>
                 ret = Ok(Mk("uint8", FALSE, Payload, <<>>))
           /\ (typ \in {"uint8", "uint16"}) => ret.err # "overflow"

\* On a 32-bit build, a 64-bit value beyond 32 bits was refused for a uint.
C4_Witness ==
    /\ Done("BytesToType")
    /\ FixedEnvelope
    /\ typ = "uint"
    /\ wordSize = 4
    /\ Payload64 = <<0, 0, 0, 255, 0, 0, 1, 44>>
    /\ ret = Err("overflow")

-----------------------------------------------------------------------------
(* C9 *)

\* The field of the target that key k names, before and after the call.
Before(k) == FieldAt(v.val, Split(k))
After(k) == FieldAt(out, Split(k))

\* C9: BytesToType on <<version, Empty>> returns no value and no error exactly
\* when the kind of the type is pointer, slice, map, interface, chan or func,
\* and the zero value of the type and no error for any other kind (0 for a
\* uint8). So when UnmarshalMap or UnmarshalByteMap succeeds on a map that
\* holds such an envelope under a key that names a field, no other key lying
\* on its path, the field is as before when its kind is nillable and zero
\* otherwise; and a call with that one entry on a target reached through
\* pointers succeeds.
C9_AbsenceVersusZero ==
    /\ (Done("BytesToType") /\ b = EmptyEnvelope) =>
          /\ ret.st = "ok"
          /\ ret.val = NilIface
                <=> Kind(typ) \in {"Ptr", "Slice", "Map", "Interface", "Chan", "Func"}
          /\ ret.val # NilIface => ret.val = Zero(typ)
          /\ typ = "uint8" => ret.val.d = <<0>>
    /\ (MapCallDone /\ ~v.impl /\ ~v.implBM) =>
          \A k \in DOMAIN GivenMap :
              (GivenMap[k] = EmptyEnvelopeValue /\ PathType("T", Split(k)) # "none") =>
                  /\ (ret.st = "ok" /\ Alone(GivenMap, k)) =>
                        After(k) = IF IsNillableType(PathType("T", Split(k)))
                                   THEN Before(k)
                                   ELSE Zero(PathType("T", Split(k)))
                  /\ (Addressable(v) /\ DOMAIN GivenMap = {k}) => ret.st = "ok"

\* Empty envelopes under "L" (a []byte) and "A.B" (a uint8) of a full T: L is
\* as it was and A.B is 0.
C9_Witness ==
    /\ Done("UnmarshalMap")
    /\ v = Target(TRUE, 1, 0, FALSE, FALSE, FullT)
    /\ DOMAIN m = {<<"L">>, <<"A", ".", "B">>}
    /\ \A k \in DOMAIN m : m[k] = EmptyEnvelopeValue
    /\ ret.st = "ok"
    /\ After(<<"L">>) = Mk("bytes", FALSE, <<8>>, <<>>)
    /\ After(<<"A", ".", "B">>) = Mk("uint8", FALSE, <<0>>, <<>>)

-----------------------------------------------------------------------------
(* C6 *)

EmptyMapCallDone ==
    \/ Done("UnmarshalMap") /\ IsEmptyMap(m)
    \/ Done("UnmarshalByteMap") /\ IsEmptyMap(bm)

\* C6 as stated: a call with an empty map returns success and leaves the
\* target as it was, for every target: also one with the capability to decode
\* itself, the nil one and one that cannot be addressed.
C6_EmptyMapNoOp ==
    EmptyMapCallDone => (ret.st = "ok" /\ out = v.val)

\* C6 as amended: it does so for every target that lacks the capability the
\* called function asks for first (MapUnmarshaler for UnmarshalMap,
\* ByteMapUnmarshaler for UnmarshalByteMap), also the nil one and one that
\* cannot be addressed; for a target that has it, the call returns what the
\* target's own method returns and leaves the target as that method does.
C6_Amended ==
    EmptyMapCallDone =>
        IF SelfDecoding
        THEN /\ ret.st = IF cust.fail THEN "err" ELSE "ok"
             /\ ~cust.touch => out = v.val
        ELSE ret.st = "ok" /\ out = v.val

\* An empty map and a **T whose second layer is nil: success.
C6_Witness ==
    /\ Done("UnmarshalMap")
    /\ IsEmptyMap(m)
    /\ v.layers = 2
    /\ v.nilLayer = 2
    /\ ret.st = "ok"
    /\ out = v.val

-----------------------------------------------------------------------------
(* C1 *)

\* C1: when UnmarshalMap returns an error on a non-empty map, every field of
\* the target holds the value it had before the call.
C1_NoPartialState ==
    (MapCallDone /\ ~SelfDecoding /\ ~IsEmptyMap(GivenMap) /\ ret.st = "err")
        => out = v.val

-----------------------------------------------------------------------------
(* C2 *)

\* C2: when the key UnmarshalMap comes to has a segment that names no field of
\* the structure reached so far (also a segment applied to a value that is no
\* structure), the call returns the field-not-found error; it does not panic.
C2_FieldNotFound ==
    (Done("UnmarshalMap") /\ ~v.impl /\ Indirect(v, 0) # "invalid"
        /\ ~IsEmptyMap(m) /\ PathType("T", Split(ord[1])) = "none")
        => /\ ret.st = "err"
           /\ ret.err = "field specified, but does not exist on structs of type"

-----------------------------------------------------------------------------
(* C7 *)

\* C7: on a non-empty map, UnmarshalMap returns an InvalidData error whenever
\* the target it resolves to cannot be addressed, as a T passed by value:
\* it neither panics nor succeeds.
C7_NotAddressable ==
    (Done("UnmarshalMap") /\ ~v.impl /\ ~IsEmptyMap(m) /\ v.iface /\ v.layers = 0)
        => /\ ret.st = "err"
           /\ ret.err = "InvalidData: indirected value is nil"

-----------------------------------------------------------------------------
(* C10 *)

\* C10: whatever the order in which range visits the keys, UnmarshalMap
\* returns the same and leaves the target the same.
C10_OrderIndependent ==
    Done("UnmarshalMap") =>
        \A o \in Orders(DOMAIN m) :
            UnmarshalMap(m, v, o, dec, cust) = Res(ret.st, ret.err, out)

====
